---------------------------- MODULE Spec2Model ----------------------------
(***************************************************************************)
(* Model of the PDF search engine of app.py: PDFSearcher (text extraction, *)
(* filename and content matching, the scan loop with its result cap, the   *)
(* final sort) and the /search handler that calls it.                      *)
(*                                                                         *)
(* Strings are sequences of one-character strings.  A regular expression   *)
(* source is a sequence of units: a character of the term, or one of the   *)
(* fragments that search_in_content inserts.                               *)
(***************************************************************************)
EXTENDS Integers, Sequences, FiniteSets, TLC

(***************************************************************************)
(* Characters and strings                                                  *)
(***************************************************************************)
NL == "\n"

\* the characters str.strip() removes and \s matches
Whitespace == {" ", NL}

\* str.lower() on one character
LowerChar(c) ==
    IF c = "A" THEN "a" ELSE c

\* str.lower()
Lower(s) ==
    [k \in 1..Len(s) |-> LowerChar(s[k])]

\* `text.lower() if not self.case_sensitive else text`
Normalize(s, case_sensitive) ==
    IF case_sensitive THEN s ELSE Lower(s)

RECURSIVE LStrip(_)
LStrip(s) ==
    IF s # <<>> /\ Head(s) \in Whitespace THEN LStrip(Tail(s)) ELSE s

RECURSIVE RStrip(_)
RStrip(s) ==
    IF s # <<>> /\ s[Len(s)] \in Whitespace
    THEN RStrip(SubSeq(s, 1, Len(s) - 1))
    ELSE s

\* no stripping at all
Strip_none(s) ==
    s

\* str.strip()
Strip(s) ==
    RStrip(LStrip(s))

\* `needle in hay`
Contains(hay, needle) ==
    \E k \in 0..(Len(hay) - Len(needle)) :
        SubSeq(hay, k + 1, k + Len(needle)) = needle

(***************************************************************************)
(* Regular expressions, as far as the patterns of search_in_content and    *)
(* the characters of the model need them                                   *)
(***************************************************************************)
OptHyphen == "[-\\s]?"
OptSlash == "[/\\s]?"
Spaces == "\\s+"

\* re.escape on one character
EscapeChar(c) ==
    CASE c = "-" -> "\\-"
      [] c = " " -> "\\ "
      [] c = "." -> "\\."
      [] c = "(" -> "\\("
      [] OTHER -> c

\* re.escape
Escape(s) ==
    [k \in 1..Len(s) |-> EscapeChar(s[k])]

\* str.replace(ch, fragment), for a one-character ch
Replace(s, ch, fragment) ==
    [k \in 1..Len(s) |-> IF s[k] = ch THEN fragment ELSE s[k]]

\* what one unit of a pattern source means to the regex compiler
Token(u) ==
    CASE u = OptHyphen -> [kind |-> "opt", chars |-> {"-"} \cup Whitespace]
      [] u = OptSlash -> [kind |-> "opt", chars |-> {"/"} \cup Whitespace]
      [] u = Spaces -> [kind |-> "plus", chars |-> Whitespace]
      [] u = "\\-" -> [kind |-> "lit", chars |-> {"-"}]
      [] u = "\\ " -> [kind |-> "lit", chars |-> {" "}]
      [] u = "\\." -> [kind |-> "lit", chars |-> {"."}]
      [] u = "\\(" -> [kind |-> "lit", chars |-> {"("}]
      [] u = "." -> [kind |-> "any", chars |-> {}]
      [] u = "(" -> [kind |-> "open", chars |-> {}]
      [] OTHER -> [kind |-> "lit", chars |-> {u}]

\* re.error: a group that is opened and never closed
Malformed(pattern) ==
    \E k \in 1..Len(pattern) : Token(pattern[k]).kind = "open"

\* one character against a literal, under re.IGNORECASE or not
CharMatches(c, tok, ignorecase) ==
    IF ignorecase
    THEN LowerChar(c) \in {LowerChar(x) : x \in tok.chars}
    ELSE c \in tok.chars

RECURSIVE MatchFrom(_, _, _, _, _)
\* the units pattern[k..] match text starting at position p
MatchFrom(pattern, k, text, p, ignorecase) ==
    IF k > Len(pattern) THEN TRUE
    ELSE LET tok == Token(pattern[k])
             here == p <= Len(text)
         IN CASE tok.kind = "lit" ->
                    /\ here
                    /\ CharMatches(text[p], tok, ignorecase)
                    /\ MatchFrom(pattern, k + 1, text, p + 1, ignorecase)
              [] tok.kind = "any" ->
                    /\ here
                    /\ text[p] # NL
                    /\ MatchFrom(pattern, k + 1, text, p + 1, ignorecase)
              [] tok.kind = "opt" ->
                    \/ /\ here
                       /\ text[p] \in tok.chars
                       /\ MatchFrom(pattern, k + 1, text, p + 1, ignorecase)
                    \/ MatchFrom(pattern, k + 1, text, p, ignorecase)
              [] tok.kind = "plus" ->
                    \E n \in 1..(Len(text) - p + 1) :
                        /\ \A j \in p..(p + n - 1) : text[j] \in tok.chars
                        /\ MatchFrom(pattern, k + 1, text, p + n, ignorecase)
              [] OTHER -> FALSE

\* re.search(pattern, text, flags) finds a match; Malformed patterns raise instead
ReSearch(pattern, text, ignorecase) ==
    \E p \in 1..(Len(text) + 1) : MatchFrom(pattern, 1, text, p, ignorecase)

(***************************************************************************)
(* Search terms                                                            *)
(***************************************************************************)
\* the insertion order of the search_terms dict
KeyOrder == <<"expediente", "sello", "caratula">>

Range(s) == {s[k] : k \in DOMAIN s}

\* search_terms after stripping and dropping the empty values; a function
\* from the kept keys to their stripped values
FilterTerms(criteria) ==
    LET stripped == [k \in Range(KeyOrder) |-> Strip(criteria[k])]
        kept == {k \in Range(KeyOrder) : stripped[k] # <<>>}
    IN [k \in kept |-> stripped[k]]

(***************************************************************************)
(* PDFSearcher.search_in_filename and PDFSearcher.search_in_content        *)
(***************************************************************************)
search_in_filename(filename, search_terms, case_sensitive) ==
    LET filename_search == Normalize(filename, case_sensitive)
        hit(k) == /\ k \in DOMAIN search_terms
                  /\ search_terms[k] # <<>>
                  /\ Contains(filename_search,
                              Normalize(search_terms[k], case_sensitive))
    IN SelectSeq(KeyOrder, hit)

\* the list without its re.escape entry
Patterns_no_escape(term_search) ==
    << term_search,
       Replace(term_search, "-", OptHyphen),
       Replace(term_search, "/", OptSlash),
       Replace(term_search, " ", Spaces) >>

\* the `patterns` list built for one term
Patterns(term_search) ==
    << term_search,
       Escape(term_search),
       Replace(term_search, "-", OptHyphen),
       Replace(term_search, "/", OptSlash),
       Replace(term_search, " ", Spaces) >>

\* the loop over `patterns`: some pattern compiles and is found
TermFound(term_value, content, case_sensitive) ==
    LET term_search == Normalize(term_value, case_sensitive)
        patterns == Patterns(term_search)
    IN \E n \in 1..Len(patterns) :
          /\ ~Malformed(patterns[n])
          /\ ReSearch(patterns[n], content, ~case_sensitive)

search_in_content(content, search_terms, case_sensitive) ==
    LET hit(k) == /\ k \in DOMAIN search_terms
                  /\ search_terms[k] # <<>>
                  /\ TermFound(search_terms[k], content, case_sensitive)
    IN SelectSeq(KeyOrder, hit)

(***************************************************************************)
(* PDFSearcher.extract_text_from_pdf                                       *)
(***************************************************************************)
\* pages read per document
MaxPages == 5

Min(a, b) == IF a <= b THEN a ELSE b

RECURSIVE PagesText(_, _)
\* the loop over the first n pages: `if page_text: text += page_text + "\n"`
PagesText(pages, n) ==
    IF n = 0 THEN <<>>
    ELSE PagesText(pages, n - 1)
             \o (IF pages[n] # <<>> THEN pages[n] \o <<NL>> ELSE <<>>)

\* a document that cannot be opened or parsed yields ""
extract_text_from_pdf(pdf_file, case_sensitive) ==
    IF pdf_file.readable
    THEN Normalize(PagesText(pdf_file.pages, Min(Len(pdf_file.pages), MaxPages)),
                   case_sensitive)
    ELSE <<>>

(***************************************************************************)
(* The decisions of the scan loop of PDFSearcher.search_pdfs               *)
(***************************************************************************)
\* no early exit from the scan
CapReached_never(results, max_results) ==
    FALSE

\* a cap that only stops the scan once it is exceeded
CapReached_off_by_one(results, max_results) ==
    Len(results) > max_results

\* `if len(results) >= self.max_results: break`
CapReached(results, max_results) ==
    Len(results) >= max_results

\* extraction skipped whenever the filename matched, in either mode
NeedsContent_filename_only(filename_matches, match_all) ==
    filename_matches = <<>>

\* extraction in ALL mode only
NeedsContent_match_all_only(filename_matches, match_all) ==
    match_all

\* `if not filename_matches or match_all`
NeedsContent(filename_matches, match_all) ==
    filename_matches = <<>> \/ match_all

\* `list(set(filename_matches + content_matches))`, listed in dict order
AllMatches(filename_matches, content_matches) ==
    LET both == Range(filename_matches \o content_matches)
        hit(k) == k \in both
    IN SelectSeq(KeyOrder, hit)

\* ANY mode's test used in both modes
should_include_any(all_matches, search_terms, match_all) ==
    Len(all_matches) > 0

\* `required_matches.issubset(found_matches)` or `len(all_matches) > 0`
should_include(all_matches, search_terms, match_all) ==
    IF match_all
    THEN DOMAIN search_terms \subseteq Range(all_matches)
    ELSE Len(all_matches) > 0

\* pdf_file.name
FileName(pdf_file) ==
    pdf_file.path[Len(pdf_file.path)]

\* the `result` dict appended for an included file
Result(pdf_file, filename_matches, content_matches, all_matches) ==
    [ filename |-> FileName(pdf_file),
      path |-> <<"root">> \o pdf_file.path,
      relative_path |-> pdf_file.path,
      matches |-> all_matches,
      filename_matches |-> filename_matches,
      content_matches |-> content_matches,
      size |-> pdf_file.size,
      modified |-> pdf_file.mtime,
      relevance_score |-> Len(all_matches) ]

\* the record appended before the stat() calls that raise
Appended_before_stat(results, pdf_file, include, record) ==
    IF include THEN Append(results, record) ELSE results

\* `if should_include: ... results.append(result)`: a stat() that raises
\* leaves the try block before the append
Appended(results, pdf_file, include, record) ==
    IF include /\ pdf_file.stat_ok THEN Append(results, record) ELSE results

(***************************************************************************)
(* results.sort(key=(relevance_score, modified), reverse=True)             *)
(***************************************************************************)
\* the key without its second component
KeyGE_score_only(a, b) ==
    a.relevance_score >= b.relevance_score

\* the key tuple of a is not smaller than that of b
KeyGE(a, b) ==
    \/ a.relevance_score > b.relevance_score
    \/ /\ a.relevance_score = b.relevance_score
       /\ a.modified >= b.modified

\* r placed behind every element whose key is not smaller: a stable sort
InsertSorted(sorted, r) ==
    LET n == Cardinality({k \in DOMAIN sorted : KeyGE(sorted[k], r)})
    IN SubSeq(sorted, 1, n) \o <<r>> \o SubSeq(sorted, n + 1, Len(sorted))

RECURSIVE SortFirst(_, _)
SortFirst(results, n) ==
    IF n = 0 THEN <<>>
    ELSE InsertSorted(SortFirst(results, n - 1), results[n])

SortResults(results) ==
    SortFirst(results, Len(results))

(***************************************************************************)
(* Inputs: the documents a search root may hold, the queries, the bounds   *)
(***************************************************************************)
\* longest directory listing
MaxFiles == 3

\* largest configured max_results
MaxCap == 3

Pdf == <<".", "p", "d", "f">>

\* documents, each with its path below the search root, its pages' text,
\* whether it can be opened and parsed, whether stat() succeeds on it
Files ==
    { [path |-> << <<"1", "-", "2">> \o Pdf >>,
       pages |-> << <<"A">> >>,
       readable |-> TRUE, stat_ok |-> TRUE, size |-> 10, mtime |-> 1],
      [path |-> << <<"1", " ", "2">> \o Pdf >>,
       pages |-> << <<"a">>, <<"1", " ", "2">> >>,
       readable |-> TRUE, stat_ok |-> TRUE, size |-> 20, mtime |-> 2],
      [path |-> << <<"s", "u", "b">>, <<"a", "1", "-", "2">> \o Pdf >>,
       pages |-> << <<"a", " ", "1">> >>,
       readable |-> FALSE, stat_ok |-> TRUE, size |-> 30, mtime |-> 2],
      [path |-> << <<"a">> \o Pdf >>,
       pages |-> << <<"1", " ", "2">> >>,
       readable |-> TRUE, stat_ok |-> FALSE, size |-> 40, mtime |-> 1],
      [path |-> << <<"(", "1">> \o Pdf >>,
       pages |-> << <<"A">>, <<>>, <<"x">>, <<"x">>, <<"x">>, <<"A", "1", "-", "2">> >>,
       readable |-> TRUE, stat_ok |-> TRUE, size |-> 50, mtime |-> 1] }

\* directory listings: distinct documents in any enumeration order
Corpora ==
    { c \in UNION {[1..n -> Files] : n \in 0..MaxFiles} :
        \A j, k \in DOMAIN c : j # k => c[j] # c[k] }

\* the three request fields as the client sends them
CriteriaSet ==
    { [expediente |-> <<>>, sello |-> <<" ">>, caratula |-> <<>>],
      [expediente |-> <<" ", "1", "-", "2", " ">>, sello |-> <<>>, caratula |-> <<>>],
      [expediente |-> <<"1", "-", "2">>, sello |-> <<"A">>, caratula |-> <<>>],
      [expediente |-> <<"1", "-", "2">>, sello |-> <<"A">>, caratula |-> <<"a", " ", "1">>],
      [expediente |-> <<"(", "1">>, sello |-> <<>>, caratula |-> <<" ">>] }

(***************************************************************************)
(* State                                                                   *)
(***************************************************************************)
VARIABLES
    case_sensitive,          \* self.case_sensitive
    search_subdirectories,   \* self.search_subdirectories
    max_results,             \* self.max_results
    root_exists,             \* Path(self.search_directory).exists()
    corpus,                  \* the .pdf files below the root, in rglob order
    criteria,                \* expediente, sello, caratula of the requests
    match_all,               \* match_all of the request being served
    pc,                      \* "idle", "loop" or "done"
    search_terms,            \* search_pdfs: search_terms
    pdf_files,               \* search_pdfs: pdf_files
    i,                       \* search_pdfs: files of pdf_files already examined
    results,                 \* search_pdfs: results
    log,                     \* the calls made while serving the request, in order
    response,                \* what /search answers
    any_response             \* the files of the latest match_all=False answer

config == <<case_sensitive, search_subdirectories, max_results>>
filesystem == <<root_exists, corpus>>
vars == <<case_sensitive, search_subdirectories, max_results, root_exists, corpus,
          criteria, match_all, pc, search_terms, pdf_files, i, results, log,
          response, any_response>>

NoResponse == [status |-> 0, success |-> FALSE]
NoTerms == [k \in {} |-> <<>>]

Event(op, file, val) == [op |-> op, file |-> file, val |-> val]

Init ==
    /\ case_sensitive \in BOOLEAN
    /\ search_subdirectories \in BOOLEAN
    /\ max_results \in -1..MaxCap
    /\ root_exists \in BOOLEAN
    /\ corpus \in (IF root_exists THEN Corpora ELSE {<<>>})
    /\ criteria \in CriteriaSet
    /\ match_all = FALSE
    /\ pc = "idle"
    /\ search_terms = NoTerms
    /\ pdf_files = <<>>
    /\ i = 0
    /\ results = <<>>
    /\ log = <<>>
    /\ response = NoResponse
    /\ any_response = [known |-> FALSE, paths |-> {}, complete |-> FALSE]


(***************************************************************************)
(* The /search handler and PDFSearcher.search_pdfs                         *)
(***************************************************************************)
\* rglob("*.pdf") or glob("*.pdf"): every document, or the root's own only
Enumerate(listing, recursive) ==
    IF recursive THEN listing
    ELSE SelectSeq(listing, LAMBDA f : Len(f.path) = 1)

\* jsonify of a returned list
Success(returned) ==
    [status |-> 200, success |-> TRUE, results |-> returned, total |-> Len(returned)]

\* an exception answered as an empty result list
Failure_as_empty(error) ==
    Success(<<>>)

\* jsonify of a raised exception
Failure(error) ==
    [status |-> 500, success |-> FALSE, error |-> error]

PathsOf(rs) == {rs[k].path : k \in DOMAIN rs}

\* the latest match_all=False answer, once the request just served is answered;
\* `complete` when the scan that produced it did not stop at the cap
Remember(m, returned, complete) ==
    IF m THEN any_response
    ELSE [known |-> TRUE, paths |-> PathsOf(returned), complete |-> complete]

\* a request arrives; nothing of the previous call survives but the config
Accept(m) ==
    /\ pc \in {"idle", "done"}
    /\ match_all' = m
    /\ search_terms' = FilterTerms(criteria)
    /\ UNCHANGED <<config, filesystem, criteria>>

\* `if not search_terms: return []`
SearchEmpty(m) ==
    /\ Accept(m)
    /\ DOMAIN search_terms' = {}
    /\ pc' = "done"
    /\ pdf_files' = <<>>
    /\ i' = 0
    /\ results' = <<>>
    /\ log' = <<>>
    /\ response' = Success(<<>>)
    /\ any_response' = Remember(m, <<>>, TRUE)

\* `if not search_path.exists(): raise FileNotFoundError`, caught by search()
SearchMissingRoot(m) ==
    /\ Accept(m)
    /\ DOMAIN search_terms' # {}
    /\ ~root_exists
    /\ pc' = "done"
    /\ pdf_files' = <<>>
    /\ i' = 0
    /\ results' = <<>>
    /\ log' = << Event("exists", 0, FALSE), Event("raise", 0, "FileNotFoundError") >>
    /\ response' = Failure("FileNotFoundError")
    /\ UNCHANGED any_response

\* the root exists: the files are listed and the scan starts
SearchStart(m) ==
    /\ Accept(m)
    /\ DOMAIN search_terms' # {}
    /\ root_exists
    /\ pc' = "loop"
    /\ pdf_files' = Enumerate(corpus, search_subdirectories)
    /\ i' = 0
    /\ results' = <<>>
    /\ log' = << Event("exists", 0, TRUE), Event("glob", 0, search_subdirectories) >>
    /\ response' = NoResponse
    /\ UNCHANGED any_response

\* the loop body up to `should_include`, for one file
Examine(pdf_file, terms, all_required, sensitive) ==
    LET filename_matches == search_in_filename(FileName(pdf_file), terms, sensitive)
        extract == NeedsContent(filename_matches, all_required)
        content == IF extract
                   THEN extract_text_from_pdf(pdf_file, sensitive)
                   ELSE <<>>
        content_matches == IF extract
                           THEN search_in_content(content, terms, sensitive)
                           ELSE <<>>
        all_matches == AllMatches(filename_matches, content_matches)
    IN [ filename_matches |-> filename_matches,
         extract |-> extract,
         content |-> content,
         content_matches |-> content_matches,
         all_matches |-> all_matches,
         include |-> should_include(all_matches, terms, all_required) ]

\* the calls one pass of the loop body makes, in the order it makes them
CallsFor(n, pdf_file, x) ==
    << Event("search_in_filename", n, x.filename_matches) >>
    \o (IF x.extract
        THEN << Event("extract", n, x.content),
                Event("search_in_content", n, x.content_matches) >>
        ELSE <<>>)
    \o << Event("should_include", n, x.include) >>
    \o (IF ~x.include THEN <<>>
        ELSE IF pdf_file.stat_ok
        THEN << Event("stat", n, pdf_file.size),
                Event("stat", n, pdf_file.mtime),
                Event("append", n, x.all_matches) >>
        ELSE << Event("stat", n, "OSError"),
                Event("except", n, "OSError") >>)

\* one pass of the loop body over pdf_files[i + 1], its try/except included
LoopIter ==
    /\ pc = "loop"
    /\ i < Len(pdf_files)
    /\ ~CapReached(results, max_results)
    /\ LET n == i + 1
           pdf_file == pdf_files[n]
           x == Examine(pdf_file, search_terms, match_all, case_sensitive)
       IN /\ results' =
                 Appended(results, pdf_file, x.include,
                          Result(pdf_file, x.filename_matches, x.content_matches,
                                 x.all_matches))
          /\ log' = log \o CallsFor(n, pdf_file, x)
    /\ i' = i + 1
    /\ UNCHANGED <<config, filesystem, criteria, match_all, pc, search_terms,
                   pdf_files, response, any_response>>

\* the sorted list is returned and answered
Return(reason) ==
    LET returned == SortResults(results)
    IN /\ pc' = "done"
       /\ results' = returned
       /\ log' = log \o << Event(reason, 0, i), Event("sort", 0, Len(results)) >>
       /\ response' = Success(returned)
       /\ any_response' = Remember(match_all, returned, reason = "end")
       /\ UNCHANGED <<config, filesystem, criteria, match_all, search_terms,
                      pdf_files, i>>

\* `if len(results) >= self.max_results: break`, with files left to examine
LoopBreak ==
    /\ pc = "loop"
    /\ i < Len(pdf_files)
    /\ CapReached(results, max_results)
    /\ Return("break")

\* pdf_files is exhausted
LoopEnd ==
    /\ pc = "loop"
    /\ i = Len(pdf_files)
    /\ Return("end")

Next ==
    \/ \E m \in BOOLEAN : SearchEmpty(m)
    \/ \E m \in BOOLEAN : SearchMissingRoot(m)
    \/ \E m \in BOOLEAN : SearchStart(m)
    \/ LoopIter
    \/ LoopBreak
    \/ LoopEnd

Spec == Init /\ [][Next]_vars

(***************************************************************************)
(* Reading the state                                                       *)
(***************************************************************************)
\* a request has been answered with a result list
Answered == pc = "done" /\ response.status = 200

\* every request field is empty or whitespace only
Blank(c) ==
    \A k \in Range(KeyOrder) : \A j \in DOMAIN c[k] : c[k][j] \in Whitespace

\* the positions in the log of the calls `op` made for file n
Calls(op, n) ==
    {k \in DOMAIN log : log[k].op = op /\ log[k].file = n}

\* the positions in the log of the calls `op`
CallsOf(op) ==
    {k \in DOMAIN log : log[k].op = op}

\* the files of pdf_files the loop body ran for
Examined ==
    {n \in 1..Len(pdf_files) : Calls("search_in_filename", n) # {}}

\* the place of a result's file in pdf_files
Place(r) ==
    CHOOSE n \in 1..Len(pdf_files) : pdf_files[n].path = r.relative_path

Max(a, b) == IF a >= b THEN a ELSE b

(***************************************************************************)
(* C1  ANY vs ALL monotonicity                                             *)
(***************************************************************************)
\* C1 as stated: on the same corpus, configuration and criteria, the files
\* returned with match_all=True are among those returned with match_all=False,
\* whatever max_results is.
C1_AllSubsetOfAny ==
    (Answered /\ match_all /\ any_response.known)
        => PathsOf(response.results) \subseteq any_response.paths

\* C1 amended: the files returned with match_all=True are among those returned
\* with match_all=False whenever the match_all=False scan examined every
\* enumerated file, that is, did not stop at the cap.
C1_AllSubsetOfCompleteAny ==
    (Answered /\ match_all /\ any_response.known /\ any_response.complete)
        => PathsOf(response.results) \subseteq any_response.paths

\* an ALL answer with a file in it, next to a complete ANY answer with more
C1_Witness ==
    /\ Answered /\ match_all
    /\ any_response.known /\ any_response.complete
    /\ response.results # <<>>
    /\ PathsOf(response.results) # any_response.paths
    /\ Cardinality(DOMAIN search_terms) >= 2

(***************************************************************************)
(* C2  Cap invariant                                                       *)
(***************************************************************************)
\* C2 as stated: the returned list has at most max_results entries, for every
\* integer max_results.
C2_AtMostMaxResults ==
    Answered => Len(response.results) <= max_results

\* C2 amended: the returned list, and the accumulator at every step, has at
\* most max_results entries when max_results >= 0 and is empty when
\* max_results < 0.
C2_AtMostCap ==
    /\ Len(results) <= Max(max_results, 0)
    /\ Answered => Len(response.results) <= Max(max_results, 0)

\* a scan stopped at a positive cap with files left to examine
C2_Witness ==
    /\ Answered
    /\ max_results >= 1
    /\ Len(response.results) = max_results
    /\ CallsOf("break") # {}
    /\ i < Len(pdf_files)

(***************************************************************************)
(* C3  Ranking order                                                       *)
(***************************************************************************)
\* C3: in a returned list, A before B means A.relevance_score > B's, or equal
\* scores and A.modified >= B.modified; results equal in both keys keep their
\* enumeration order.
C3_RankingOrder ==
    Answered =>
        \A j, k \in DOMAIN response.results :
            j < k =>
                LET A == response.results[j]
                    B == response.results[k]
                IN /\ \/ A.relevance_score > B.relevance_score
                      \/ /\ A.relevance_score = B.relevance_score
                         /\ A.modified >= B.modified
                   /\ (A.relevance_score = B.relevance_score
                         /\ A.modified = B.modified) => Place(A) < Place(B)

\* three results: a tie in both keys, and a result the sort moved forward
C3_Witness ==
    /\ Answered
    /\ Len(response.results) >= 3
    /\ \E j, k \in DOMAIN response.results :
          /\ j < k
          /\ response.results[j].relevance_score = response.results[k].relevance_score
          /\ response.results[j].modified = response.results[k].modified
    /\ \E j, k \in DOMAIN response.results :
          /\ j < k
          /\ Place(response.results[j]) > Place(response.results[k])

(***************************************************************************)
(* C4  Empty criteria law                                                  *)
(***************************************************************************)
\* C4: when the three terms are empty or whitespace only, the answer is the
\* empty list and no filesystem call (exists, glob, extract, stat) was made,
\* also when the search root does not exist.
C4_EmptyCriteria ==
    (pc = "done" /\ Blank(criteria)) =>
        /\ response = Success(<<>>)
        /\ log = <<>>

\* a whitespace-only request answered while the root is missing
C4_Witness ==
    /\ pc = "done"
    /\ Blank(criteria)
    /\ \E k \in Range(KeyOrder) : criteria[k] # <<>>
    /\ ~root_exists
    /\ response.success

(***************************************************************************)
(* C5  Missing root                                                        *)
(***************************************************************************)
\* C5: with a non-empty criterion and a missing root the call raises
\* FileNotFoundError before anything is enumerated, matched or extracted, no
\* list is returned, and /search answers success=false.
C5_MissingRoot ==
    (pc = "done" /\ ~Blank(criteria) /\ ~root_exists) =>
        /\ response.status = 500
        /\ ~response.success
        /\ response.error = "FileNotFoundError"
        /\ "results" \notin DOMAIN response
        /\ results = <<>>
        /\ \A k \in DOMAIN log : log[k].op \in {"exists", "raise"}
        /\ log[Len(log)].op = "raise"

\* a request with a criterion answered while the root is missing
C5_Witness ==
    /\ pc = "done"
    /\ ~Blank(criteria)
    /\ ~root_exists
    /\ ~response.success

(***************************************************************************)
(* C6  Per-file failure isolation                                          *)
(***************************************************************************)
\* the loop decided to include file n
Included(n) ==
    \E k \in Calls("should_include", n) : log[k].val

\* file n has a record in the accumulator
InResults(n) ==
    \E k \in DOMAIN results : results[k].relative_path = pdf_files[n].path

\* C6: with a criterion and an existing root the call never fails; a failed
\* extraction counts as empty text; the included files whose stat() fails, and
\* only those, are missing from the results, with no partial record; every
\* file is examined in turn until the list is exhausted or the cap reached.
C6_FailureIsolation ==
    /\ (pc = "done" /\ ~Blank(criteria) /\ root_exists) => response.status = 200
    /\ \A k \in CallsOf("extract") :
          ~pdf_files[log[k].file].readable => log[k].val = <<>>
    /\ Examined = 1..i
    /\ \A n \in Examined :
          /\ InResults(n) <=> (Included(n) /\ pdf_files[n].stat_ok)
          /\ ~pdf_files[n].stat_ok => Calls("append", n) = {}
    /\ \A k \in DOMAIN results :
          /\ results[k].size = pdf_files[Place(results[k])].size
          /\ results[k].modified = pdf_files[Place(results[k])].mtime
    /\ Answered => (i = Len(pdf_files) \/ Len(results) >= max_results)

\* an answer holding an unreadable file matched by its name, and a file
\* examined and returned after one whose stat() failed
C6_Witness ==
    /\ Answered
    /\ \E n \in Examined :
          /\ ~pdf_files[n].readable
          /\ Calls("extract", n) # {}
          /\ InResults(n)
    /\ \E n, m \in Examined :
          /\ n < m
          /\ Included(n)
          /\ ~pdf_files[n].stat_ok
          /\ InResults(m)

(***************************************************************************)
(* C7  Filename matching and the Term Matcher                              *)
(***************************************************************************)
\* what search_in_content returns on the case-normalized name of file n
TermMatcherOnName(n) ==
    search_in_content(Normalize(FileName(pdf_files[n]), case_sensitive),
                      search_terms, case_sensitive)

Matched(n) ==
    UNION {Range(log[k].val) :
              k \in Calls("search_in_filename", n) \cup Calls("search_in_content", n)}

\* C8: every result's matches are filename_matches union content_matches
\* without duplicates, among the non-empty criteria, and relevance_score is
\* their number; with match_all they are all the criteria (so a returned list
\* is ordered by recency alone), without it they are not empty; no examined
\* file that fails the mode's condition is appended.
C8_InclusionPolicy ==
    /\ \A k \in DOMAIN results :
          LET r == results[k]
          IN /\ Range(r.matches) = Range(r.filename_matches) \cup Range(r.content_matches)
             /\ Cardinality(Range(r.matches)) = Len(r.matches)
             /\ Range(r.matches) \subseteq {f \in Range(KeyOrder) : Strip(criteria[f]) # <<>>}
             /\ r.relevance_score = Cardinality(Range(r.matches))
             /\ match_all => Range(r.matches) = DOMAIN search_terms
             /\ ~match_all => r.matches # <<>>
    /\ (Answered /\ match_all) =>
          \A j, k \in DOMAIN response.results :
              j < k => /\ response.results[j].relevance_score
                          = Cardinality(DOMAIN search_terms)
                       /\ response.results[j].modified >= response.results[k].modified
    /\ \A n \in Examined :
          Calls("append", n) # {} =>
              IF match_all THEN DOMAIN search_terms \subseteq Matched(n)
              ELSE Matched(n) # {}

\* an ALL answer with two results for two criteria, after a file that
\* matched only one of them was examined and left out
C8_Witness ==
    /\ Answered /\ match_all
    /\ Cardinality(DOMAIN search_terms) = 2
    /\ Len(response.results) >= 2
    /\ \E n \in Examined : Matched(n) # {} /\ ~InResults(n) /\ pdf_files[n].stat_ok

(***************************************************************************)
(* C9  Conditional extraction                                              *)
(***************************************************************************)
\* the single position of call `op` for file n
At(op, n) == CHOOSE k \in Calls(op, n) : TRUE

\* C9: a file's text is extracted exactly when its filename matched nothing
\* or match_all is requested, after the filename test and before the
\* inclusion decision; so without match_all a result with filename matches has
\* no content matches, and with match_all every examined file is extracted.
C9_ConditionalExtraction ==
    /\ \A n \in Examined :
          /\ Calls("extract", n) # {}
                <=> (log[At("search_in_filename", n)].val = <<>> \/ match_all)
          /\ Calls("extract", n) # {} =>
                /\ At("search_in_filename", n) < At("extract", n)
                /\ At("extract", n) < At("search_in_content", n)
                /\ At("search_in_content", n) < At("should_include", n)
          /\ match_all => Calls("extract", n) # {}
    /\ \A k \in DOMAIN results :
          (~match_all /\ results[k].filename_matches # <<>>)
              => results[k].content_matches = <<>>

\* an ANY result found by its name whose unread text holds another criterion
C9_Witness ==
    /\ Answered /\ ~match_all
    /\ \E n \in Examined :
          /\ InResults(n)
          /\ Calls("extract", n) = {}
          /\ Range(search_in_content(
                       extract_text_from_pdf(pdf_files[n], case_sensitive),
                       search_terms, case_sensitive))
                 \ Range(log[At("search_in_filename", n)].val) # {}

(***************************************************************************)
(* C10  Truncation precedes ranking                                        *)
(***************************************************************************)
\* file f would be appended when the loop body runs for it
Qualifies(f) ==
    Examine(f, search_terms, match_all, case_sensitive).include /\ f.stat_ok

\* the relevance_score file f would get
Score(f) ==
    Len(Examine(f, search_terms, match_all, case_sensitive).all_matches)

\* the appends logged before position k
AppendsBefore(k) ==
    Cardinality({j \in CallsOf("append") : j < k})

=============================================================================
